---- MODULE Spec2Model ----
(***************************************************************************)
(* Model of src/programs/serum_market.rs: fragment_instruction, the         *)
(* projection of one Serum DEX market instruction onto zero or one typed,  *)
(* table-tagged record.                                                    *)
(*                                                                         *)
(* A caller hands fragment_instruction one Instruction (payload bytes, an  *)
(* ordered account list, an event timestamp).  The function unpacks the    *)
(* payload with MarketInstruction::unpack, matches on the variant, builds  *)
(* one record from the decoded fields and from fixed positions of the      *)
(* account list, and returns Some(map) holding it, or None.  Indexing a    *)
(* Vec past its end panics in Rust; the model keeps that outcome.          *)
(*                                                                         *)
(* Names the source leaves unresolved are read the evident way:            *)
(* SERUM_MARKET_SCHEMA is the static SERUM_MARKETS_SCHEMA, response        *)
(* .contains is HashMap::contains_key, and `order` in the                  *)
(* CancelOrderByClientId arm is the decoded instruction's order fields.    *)
(***************************************************************************)
EXTENDS Integers, Sequences, FiniteSets

VARIABLES pc, input, decoded, response, rec, outcome, diag, last

vars == <<pc, input, decoded, response, rec, outcome, diag, last>>

(***************************************************************************)
(* Bounds of the model.                                                    *)
(***************************************************************************)
\* longest account list a caller passes
MaxAccounts == 14
\* number of concurrent callers in the concurrent specification
NumCallers == 2
\* largest event timestamp a caller passes
MaxTimestamp == 2

(***************************************************************************)
(* Table names and schema handles (lines 14-144).  A schema handle is      *)
(* modelled by the name of the Avro record it parses.                      *)
(***************************************************************************)
SERUM_MARKET_TABLE_NAME == "serum_markets"
SERUM_ORDER_TABLE_NAME == "serum_orders"
SERUM_CANCELLED_ORDER_TABLE_NAME == "serum_cancelled_orders"
SERUM_SEND_TAKE_TABLE_NAME == "serum_send_takes"
SERUM_PRUNE_TABLE_NAME == "serum_prunes"
SERUM_MARKET_DISABLE_TABLE_NAME == "serum_market_disables"

SERUM_MARKETS_SCHEMA == "serum_market"
SERUM_ORDERS_SCHEMA == "serum_order"
SERUM_CANCELLED_ORDERS_SCHEMA == "serum_cancelled_order"
SERUM_SEND_TAKES_SCHEMA == "serum_send_take"
SERUM_PRUNE_SCHEMA == "serum_prune"
SERUM_MARKET_DISABLE_SCHEMA == "serum_market_disable"

(***************************************************************************)
(* The closed set of MarketInstruction variants matched at lines 271-647.  *)
(***************************************************************************)
MappedVariants ==
    { "InitializeMarket", "NewOrder", "NewOrderV2", "NewOrderV3",
      "CancelOrder", "CancelOrderByClientId", "CancelOrderV2",
      "CancelOrderByClientIdV2", "DisableMarket", "SweepFees",
      "SendTake", "Prune" }

UnmappedVariants ==
    { "SettleFunds", "CloseOpenOrders", "InitOpenOrders", "MatchOrders",
      "ConsumeEvents", "ConsumeEventsPermissioned" }

Variants == MappedVariants \cup UnmappedVariants

\* a payload tag no variant answers to
GarbageTag == "Garbage"

(***************************************************************************)
(* Option<T>: None is the empty sequence, Some(x) the one-element one.     *)
(***************************************************************************)
None == << >>
Some(x) == << x >>

(***************************************************************************)
(* Integers.  A u64 is four 16-bit limbs, most significant first; an i64   *)
(* is a sign and the limbs of its magnitude.  `x as i64` on a u64 keeps    *)
(* the bits: values from 2^63 up come out negative.                        *)
(***************************************************************************)
U64(top, low) == << top, 0, 0, low >>

\* 2^64 - u on limbs, for u # 0
NegateLimbs(u) ==
    LET b4 == IF u[4] = 0 THEN 0 ELSE 1
        b3 == IF u[3] + b4 = 0 THEN 0 ELSE 1
        b2 == IF u[2] + b3 = 0 THEN 0 ELSE 1
    IN  << (65536 - u[1] - b2) % 65536,
           (65536 - u[2] - b3) % 65536,
           (65536 - u[3] - b4) % 65536,
           (65536 - u[4]) % 65536 >>

\* u64 as i64
AsI64(u) ==
    IF u[1] < 32768
    THEN [neg |-> FALSE, mag |-> u]
    ELSE [neg |-> TRUE, mag |-> NegateLimbs(u)]

\* u16 as i64 (zero extension)
U16AsI64(x) == [neg |-> FALSE, mag |-> << 0, 0, 0, x >>]

\* u16, or a C-like enum's discriminant, as i16
AsI16(x) == IF x >= 32768 THEN x - 65536 ELSE x

\* Display of an integer: its decimal text, kept as the number it spells
to_string(x) == [decimal |-> x]

(***************************************************************************)
(* Instructions.  The account at 0-based position k of every list is the   *)
(* address 100 + k, so that two positions never hold the same address.     *)
(***************************************************************************)
AddressAt(k) == 100 + k

AccountList(len) == [k \in 1..len |-> AddressAt(k - 1)]

Payloads ==
    [ tag : Variants \cup {GarbageTag},
      side : {0, 1},
      order_type : {0, 2},
      self_trade_behavior : {0, 1},
      top : {0, 65535},
      limit : {7, 65535} ]

Instructions ==
    [ data : Payloads,
      accounts : { AccountList(n) : n \in 0..MaxAccounts },
      timestamp : 1..MaxTimestamp ]

(***************************************************************************)
(* MarketInstruction::unpack (line 265): Some(variant with its fields) for *)
(* a payload serum_dex recognises, None otherwise.  Each u64 field of the  *)
(* decoded instruction carries its own low limb, so that two fields never  *)
(* hold the same value.                                                    *)
(***************************************************************************)
Unpack(data) ==
    IF data.tag \in Variants
    THEN Some([ variant |-> data.tag,
                side |-> data.side,
                order_type |-> data.order_type,
                self_trade_behavior |-> data.self_trade_behavior,
                limit |-> data.limit,
                fee_rate_bps |-> data.limit,
                coin_lot_size |-> U64(data.top, 1),
                pc_lot_size |-> U64(data.top, 2),
                pc_dust_threshold |-> U64(data.top, 3),
                limit_price |-> U64(data.top, 4),
                max_qty |-> U64(data.top, 5),
                client_id |-> U64(data.top, 6),
                max_coin_qty |-> U64(data.top, 7),
                max_native_pc_qty_including_fees |-> U64(data.top, 8),
                min_coin_qty |-> U64(data.top, 9),
                min_native_pc_qty |-> U64(data.top, 10),
                order_id |-> U64(data.top, 11) ])
    ELSE None

(***************************************************************************)
(* instruction.accounts[k].account.to_string(): the address at 0-based     *)
(* position k.  Past the end of the list the index panics; OutOfBounds     *)
(* marks the field whose evaluation panicked.                              *)
(***************************************************************************)
OutOfBounds == -1

At(instruction, k) ==
    IF k < Len(instruction.accounts)
    THEN instruction.accounts[k + 1]
    ELSE OutOfBounds

(***************************************************************************)
(* The records, one operator per match arm.  `record` names the struct.    *)
(***************************************************************************)

\* BuildInitializeMarket reading coin_mint and price_account in list order
BuildInitializeMarketInOrder(instruction, imi) ==
    [ record |-> "SerumMarket",
      market |-> At(instruction, 0),
      request_queue_account |-> At(instruction, 1),
      event_queue_account |-> At(instruction, 2),
      bids_account |-> At(instruction, 3),
      asks_account |-> At(instruction, 4),
      coin_account |-> At(instruction, 5),
      coin_mint |-> At(instruction, 6),
      price_account |-> At(instruction, 7),
      price_mint |-> At(instruction, 8),
      open_order_authority |->
          IF Len(instruction.accounts) >= 11
          THEN Some(At(instruction, 10)) ELSE None,
      prune_authority |->
          IF Len(instruction.accounts) >= 11
          THEN Some(At(instruction, 11)) ELSE None,
      crank_authority |->
          IF Len(instruction.accounts) >= 11
          THEN Some(At(instruction, 12)) ELSE None,
      coin_lot_size |-> AsI64(imi.coin_lot_size),
      price_currency_lot_size |-> AsI64(imi.pc_lot_size),
      fee_rate_bps |-> U16AsI64(imi.fee_rate_bps),
      pc_dust_threshold |-> AsI64(imi.pc_dust_threshold),
      timestamp |-> instruction.timestamp ]

\* lines 272-305
BuildInitializeMarket(instruction, imi) ==
    [ record |-> "SerumMarket",
      market |-> At(instruction, 0),
      request_queue_account |-> At(instruction, 1),
      event_queue_account |-> At(instruction, 2),
      bids_account |-> At(instruction, 3),
      asks_account |-> At(instruction, 4),
      coin_account |-> At(instruction, 5),
      coin_mint |-> At(instruction, 7),
      price_account |-> At(instruction, 6),
      price_mint |-> At(instruction, 8),
      open_order_authority |->
          IF Len(instruction.accounts) >= 11
          THEN Some(At(instruction, 10)) ELSE None,
      prune_authority |->
          IF Len(instruction.accounts) >= 11
          THEN Some(At(instruction, 11)) ELSE None,
      crank_authority |->
          IF Len(instruction.accounts) >= 11
          THEN Some(At(instruction, 12)) ELSE None,
      coin_lot_size |-> AsI64(imi.coin_lot_size),
      price_currency_lot_size |-> AsI64(imi.pc_lot_size),
      fee_rate_bps |-> U16AsI64(imi.fee_rate_bps),
      pc_dust_threshold |-> AsI64(imi.pc_dust_threshold),
      timestamp |-> instruction.timestamp ]

\* lines 315-332
BuildNewOrder(instruction, order) ==
    [ record |-> "SerumOrder",
      client_order_id |-> AsI64(order.client_id),
      order_type |-> AsI16(order.order_type),
      side |-> AsI16(order.side),
      limit |-> None,
      limit_price |-> AsI64(order.limit_price),
      max_quantity |-> AsI64(order.max_qty),
      market |-> At(instruction, 0),
      self_trade_behavior |-> None,
      paying_account |-> At(instruction, 3),
      coin_vault |-> At(instruction, 5),
      pc_vault |-> At(instruction, 6),
      msrm_discount_account |-> Some(At(instruction, 9)),
      timestamp |-> instruction.timestamp ]


\* BuildNewOrderV2 copied from the v1 arm with self_trade_behavior left None
BuildNewOrderV2NoSelfTrade(instruction, order) ==
    [ record |-> "SerumOrder",
      client_order_id |-> AsI64(order.client_id),
      order_type |-> AsI16(order.order_type),
      side |-> AsI16(order.side),
      limit |-> None,
      limit_price |-> AsI64(order.limit_price),
      max_quantity |-> AsI64(order.max_qty),
      market |-> At(instruction, 0),
      self_trade_behavior |-> None,
      paying_account |-> At(instruction, 3),
      coin_vault |-> At(instruction, 5),
      pc_vault |-> At(instruction, 6),
      msrm_discount_account |->
          IF Len(instruction.accounts) >= 12
          THEN Some(At(instruction, 9)) ELSE None,
      timestamp |-> instruction.timestamp ]

\* lines 454-485
BuildNewOrderV2(instruction, order) ==
    [ record |-> "SerumOrder",
      client_order_id |-> AsI64(order.client_id),
      order_type |-> AsI16(order.order_type),
      side |-> AsI16(order.side),
      limit |-> None,
      limit_price |-> AsI64(order.limit_price),
      max_quantity |-> AsI64(order.max_qty),
      market |-> At(instruction, 0),
      self_trade_behavior |-> Some(AsI16(order.self_trade_behavior)),
      paying_account |-> At(instruction, 3),
      coin_vault |-> At(instruction, 5),
      pc_vault |-> At(instruction, 6),
      msrm_discount_account |->
          IF Len(instruction.accounts) >= 12
          THEN Some(At(instruction, 9)) ELSE None,
      timestamp |-> instruction.timestamp ]

\* lines 495-516
BuildNewOrderV3(instruction, order) ==
    [ record |-> "SerumOrder",
      client_order_id |-> AsI64(order.client_id),
      order_type |-> AsI16(order.order_type),
      side |-> AsI16(order.side),
      limit |-> Some(AsI16(order.limit)),
      limit_price |-> AsI64(order.limit_price),
      max_quantity |-> AsI64(order.max_qty),
      market |-> At(instruction, 0),
      self_trade_behavior |-> Some(AsI16(order.self_trade_behavior)),
      paying_account |-> At(instruction, 6),
      coin_vault |-> At(instruction, 8),
      pc_vault |-> At(instruction, 9),
      msrm_discount_account |->
          IF Len(instruction.accounts) >= 12
          THEN Some(At(instruction, 12)) ELSE None,
      timestamp |-> instruction.timestamp ]

\* lines 348-361
BuildCancelOrder(instruction, order) ==
    [ record |-> "CancelledOrder",
      side |-> Some(AsI16(order.side)),
      order_id |-> to_string(order.order_id),
      market |-> At(instruction, 0),
      timestamp |-> instruction.timestamp,
      open_order_owner |-> At(instruction, 3) ]

\* lines 385-398; `order.side` is read off the decoded instruction
BuildCancelOrderByClientId(instruction, order) ==
    [ record |-> "CancelledOrder",
      side |-> Some(AsI16(order.side)),
      order_id |-> to_string(order.client_id),
      market |-> At(instruction, 0),
      timestamp |-> instruction.timestamp,
      open_order_owner |-> At(instruction, 3) ]

\* lines 526-541
BuildCancelOrderV2(instruction, order) ==
    [ record |-> "CancelledOrder",
      side |-> Some(AsI16(order.side)),
      order_id |-> to_string(order.order_id),
      market |-> At(instruction, 0),
      timestamp |-> instruction.timestamp,
      open_order_owner |-> At(instruction, 4) ]


\* BuildCancelOrderByClientIdV2 copied from the v1 arm, side and all
BuildCancelOrderByClientIdV2WithSide(instruction, order) ==
    [ record |-> "CancelledOrder",
      side |-> Some(AsI16(order.side)),
      order_id |-> to_string(order.client_id),
      market |-> At(instruction, 0),
      timestamp |-> instruction.timestamp,
      open_order_owner |-> At(instruction, 3) ]

\* lines 551-566
BuildCancelOrderByClientIdV2(instruction, order) ==
    [ record |-> "CancelledOrder",
      side |-> None,
      order_id |-> to_string(order.client_id),
      market |-> At(instruction, 0),
      timestamp |-> instruction.timestamp,
      open_order_owner |-> At(instruction, 3) ]

\* lines 408-417
BuildDisableMarket(instruction, d) ==
    [ record |-> "MarketDisable",
      market |-> At(instruction, 0),
      authority |-> At(instruction, 1),
      timestamp |-> instruction.timestamp ]

\* lines 427-444
BuildSweepFees(instruction, d) ==
    [ record |-> "FeeSweep",
      market |-> At(instruction, 0),
      pc_vault |-> At(instruction, 1),
      fee_authority |-> At(instruction, 2),
      fee_receivable_account |-> At(instruction, 3),
      timestamp |-> instruction.timestamp ]


\* BuildSendTake taking the timestamp for seconds and scaling it to millis
BuildSendTakeScaledTimestamp(instruction, sti) ==
    [ record |-> "SendTake",
      market |-> At(instruction, 0),
      side |-> AsI16(sti.side),
      limit_price |-> AsI64(sti.limit_price),
      max_quantity |-> AsI64(sti.max_coin_qty),
      max_pc_qty_incl_fees |-> AsI64(sti.max_native_pc_qty_including_fees),
      min_coin_qty |-> AsI64(sti.min_coin_qty),
      min_pc_qty |-> AsI64(sti.min_native_pc_qty),
      coin_wallet_account |-> At(instruction, 5),
      pc_wallet_account |-> At(instruction, 6),
      coin_vault |-> At(instruction, 8),
      pc_vault |-> At(instruction, 9),
      msrm_discount_account |->
          IF Len(instruction.accounts) >= 12
          THEN Some(At(instruction, 12)) ELSE None,
      timestamp |-> instruction.timestamp * 1000 ]

\* lines 576-602
BuildSendTake(instruction, sti) ==
    [ record |-> "SendTake",
      market |-> At(instruction, 0),
      side |-> AsI16(sti.side),
      limit_price |-> AsI64(sti.limit_price),
      max_quantity |-> AsI64(sti.max_coin_qty),
      max_pc_qty_incl_fees |-> AsI64(sti.max_native_pc_qty_including_fees),
      min_coin_qty |-> AsI64(sti.min_coin_qty),
      min_pc_qty |-> AsI64(sti.min_native_pc_qty),
      coin_wallet_account |-> At(instruction, 5),
      pc_wallet_account |-> At(instruction, 6),
      coin_vault |-> At(instruction, 8),
      pc_vault |-> At(instruction, 9),
      msrm_discount_account |->
          IF Len(instruction.accounts) >= 12
          THEN Some(At(instruction, 12)) ELSE None,
      timestamp |-> instruction.timestamp ]

\* lines 627-636
BuildPrune(instruction, d) ==
    [ record |-> "Prune",
      market |-> At(instruction, 0),
      limit |-> AsI16(d.limit),
      open_orders |-> At(instruction, 4),
      open_orders_owner |-> At(instruction, 5),
      timestamp |-> instruction.timestamp ]

\* the record the arm of variant d.variant builds
BuildRecord(instruction, d) ==
    CASE d.variant = "InitializeMarket" -> BuildInitializeMarket(instruction, d)
      [] d.variant = "NewOrder" -> BuildNewOrder(instruction, d)
      [] d.variant = "NewOrderV2" -> BuildNewOrderV2(instruction, d)
      [] d.variant = "NewOrderV3" -> BuildNewOrderV3(instruction, d)
      [] d.variant = "CancelOrder" -> BuildCancelOrder(instruction, d)
      [] d.variant = "CancelOrderByClientId" ->
             BuildCancelOrderByClientId(instruction, d)
      [] d.variant = "CancelOrderV2" -> BuildCancelOrderV2(instruction, d)
      [] d.variant = "CancelOrderByClientIdV2" ->
             BuildCancelOrderByClientIdV2(instruction, d)
      [] d.variant = "DisableMarket" -> BuildDisableMarket(instruction, d)
      [] d.variant = "SweepFees" -> BuildSweepFees(instruction, d)
      [] d.variant = "SendTake" -> BuildSendTake(instruction, d)
      [] d.variant = "Prune" -> BuildPrune(instruction, d)

\* the fields of a record that come off the account list
AccountFields ==
    { "market", "request_queue_account", "event_queue_account",
      "bids_account", "asks_account", "coin_account", "coin_mint",
      "price_account", "price_mint", "paying_account", "coin_vault",
      "pc_vault", "open_order_owner", "authority", "fee_authority",
      "fee_receivable_account", "coin_wallet_account", "pc_wallet_account",
      "open_orders", "open_orders_owner" }

OptionalAccountFields ==
    { "open_order_authority", "prune_authority", "crank_authority",
      "msrm_discount_account" }

\* building r indexed the account list past its end
Panicked(r) ==
    \/ \E f \in DOMAIN r \cap AccountFields : r[f] = OutOfBounds
    \/ \E f \in DOMAIN r \cap OptionalAccountFields : r[f] = Some(OutOfBounds)

(***************************************************************************)
(* The key each arm files its record under: (table name, schema).          *)
(***************************************************************************)
KeyOf(variant) ==
    CASE variant = "DisableMarket" ->
             << SERUM_MARKET_DISABLE_TABLE_NAME, SERUM_MARKET_DISABLE_SCHEMA >>
      [] variant = "SweepFees" ->
             << SERUM_MARKET_DISABLE_TABLE_NAME, SERUM_MARKET_DISABLE_SCHEMA >>
      [] variant = "SendTake" ->
             << SERUM_SEND_TAKE_TABLE_NAME, SERUM_SEND_TAKES_SCHEMA >>
      [] variant = "Prune" ->
             << SERUM_PRUNE_TABLE_NAME, SERUM_PRUNE_SCHEMA >>
      [] OTHER ->
             << SERUM_MARKET_TABLE_NAME, SERUM_MARKETS_SCHEMA >>

(***************************************************************************)
(* The accumulation: a HashMap from key to Vec of records.                 *)
(***************************************************************************)
EmptyMap == [k \in {} |-> << >>]


\* NewResponse that keeps the map of the call before
KeepResponse(stale) == stale

\* line 269: let mut response = HashMap::new(), whatever the slot held
NewResponse(stale) == EmptyMap


\* Upsert that pushes under a key already there and otherwise drops the record
UpsertNoCreate(m, key, r) ==
    IF key \in DOMAIN m THEN [m EXCEPT ![key] = Append(@, r)] ELSE m

\* lines 307-311: push under a key already there, else start its Vec
Upsert(m, key, r) ==
    IF key \in DOMAIN m
    THEN [m EXCEPT ![key] = Append(@, r)]
    ELSE [k \in DOMAIN m \cup {key} |-> IF k = key THEN << r >> ELSE m[k]]


\* StoreResponse on one map shared by every invocation
StoreShared(resp, i, m) == [j \in DOMAIN resp |-> m]

\* response is a local of the invocation: storing it touches slot i alone
StoreResponse(resp, i, m) == [resp EXCEPT ![i] = m]

(***************************************************************************)
(* What an invocation hands back.                                          *)
(***************************************************************************)
Absent == [kind |-> "none"]
Present(m) == [kind |-> "some", map |-> m]
Panic == [kind |-> "panic"]
Running == [kind |-> "running"]

\* fragment_instruction as a function of its argument (lines 260-652)
Project(instruction) ==
    LET u == Unpack(instruction.data)
    IN  IF u = None THEN Absent
        ELSE IF u[1].variant \in UnmappedVariants THEN Absent
        ELSE IF Panicked(BuildRecord(instruction, u[1])) THEN Panic
        ELSE Present(Upsert(NewResponse(EmptyMap), KeyOf(u[1].variant),
                            BuildRecord(instruction, u[1])))

(***************************************************************************)
(* State.  Every variable is indexed by the caller; slot i holds what      *)
(* caller i's invocation of fragment_instruction has on its stack.         *)
(*   pc        where the invocation stands                                 *)
(*   input     Some(the Instruction passed), None when idle                *)
(*   decoded   unpack_result                                               *)
(*   response  the local HashMap                                           *)
(*   rec       Some(the record built and not yet inserted)                 *)
(*   outcome   what the invocation returned                                *)
(*   diag      error! lines this invocation wrote                          *)
(*   last      Some(input, outcome and diag of the caller's previous call) *)
(***************************************************************************)
InitFor(callers) ==
    /\ pc = [i \in callers |-> "idle"]
    /\ input = [i \in callers |-> None]
    /\ decoded = [i \in callers |-> None]
    /\ response = [i \in callers |-> EmptyMap]
    /\ rec = [i \in callers |-> None]
    /\ outcome = [i \in callers |-> Running]
    /\ diag = [i \in callers |-> 0]
    /\ last = [i \in callers |-> None]

\* one caller, calling again and again
Init == InitFor({1})

\* NumCallers callers on their own threads
InitConc == InitFor(1..NumCallers)

\* the caller invokes fragment_instruction(instruction)
CallFrom(i, instructions) ==
    /\ pc[i] = "idle"
    /\ \E instruction \in instructions :
           input' = [input EXCEPT ![i] = Some(instruction)]
    /\ pc' = [pc EXCEPT ![i] = "unpack"]
    /\ UNCHANGED <<decoded, response, rec, outcome, diag, last>>

Call(i) == CallFrom(i, Instructions)


\* UnpackFail without the error! line
UnpackFailSilent(i) ==
    /\ pc[i] = "unpack"
    /\ Unpack(input[i][1].data) = None
    /\ outcome' = [outcome EXCEPT ![i] = Absent]
    /\ pc' = [pc EXCEPT ![i] = "done"]
    /\ UNCHANGED <<input, decoded, response, rec, diag, last>>

\* lines 265-268 and 650-651: unpack fails, error! and None
UnpackFail(i) ==
    /\ pc[i] = "unpack"
    /\ Unpack(input[i][1].data) = None
    /\ diag' = [diag EXCEPT ![i] = @ + 1]
    /\ outcome' = [outcome EXCEPT ![i] = Absent]
    /\ pc' = [pc EXCEPT ![i] = "done"]
    /\ UNCHANGED <<input, decoded, response, rec, last>>

\* lines 265-269: unpack succeeds, the response map is created
UnpackOk(i) ==
    /\ pc[i] = "unpack"
    /\ Unpack(input[i][1].data) # None
    /\ decoded' = [decoded EXCEPT ![i] = Unpack(input[i][1].data)]
    /\ response' = StoreResponse(response, i, NewResponse(response[i]))
    /\ pc' = [pc EXCEPT ![i] = "match"]
    /\ UNCHANGED <<input, rec, outcome, diag, last>>


\* SkipUnmapped treating the dropped variant as an anomaly: it logs
SkipUnmappedLogged(i) ==
    /\ pc[i] = "match"
    /\ decoded[i][1].variant \in UnmappedVariants
    /\ diag' = [diag EXCEPT ![i] = @ + 1]
    /\ outcome' = [outcome EXCEPT ![i] = Absent]
    /\ pc' = [pc EXCEPT ![i] = "done"]
    /\ UNCHANGED <<input, decoded, response, rec, last>>

\* the arms that return None: lines 342-347, 372-384, 613-626, 646
SkipUnmapped(i) ==
    /\ pc[i] = "match"
    /\ decoded[i][1].variant \in UnmappedVariants
    /\ outcome' = [outcome EXCEPT ![i] = Absent]
    /\ pc' = [pc EXCEPT ![i] = "done"]
    /\ UNCHANGED <<input, decoded, response, rec, diag, last>>

\* a mapped arm builds its record, every index within the account list
BuildOk(i) ==
    /\ pc[i] = "match"
    /\ decoded[i][1].variant \in MappedVariants
    /\ ~Panicked(BuildRecord(input[i][1], decoded[i][1]))
    /\ rec' = [rec EXCEPT ![i] = Some(BuildRecord(input[i][1], decoded[i][1]))]
    /\ pc' = [pc EXCEPT ![i] = "insert"]
    /\ UNCHANGED <<input, decoded, response, outcome, diag, last>>

\* a mapped arm indexes past the end of the account list: the call panics
BuildPanic(i) ==
    /\ pc[i] = "match"
    /\ decoded[i][1].variant \in MappedVariants
    /\ Panicked(BuildRecord(input[i][1], decoded[i][1]))
    /\ outcome' = [outcome EXCEPT ![i] = Panic]
    /\ pc' = [pc EXCEPT ![i] = "done"]
    /\ UNCHANGED <<input, decoded, response, rec, diag, last>>

\* if response.contains(&key) { push } else { insert }
Insert(i) ==
    /\ pc[i] = "insert"
    /\ response' = StoreResponse(response, i,
                       Upsert(response[i], KeyOf(decoded[i][1].variant),
                              rec[i][1]))
    /\ rec' = [rec EXCEPT ![i] = None]
    /\ pc' = [pc EXCEPT ![i] = "return"]
    /\ UNCHANGED <<input, decoded, outcome, diag, last>>

\* Some(response)
ReturnSome(i) ==
    /\ pc[i] = "return"
    /\ outcome' = [outcome EXCEPT ![i] = Present(response[i])]
    /\ pc' = [pc EXCEPT ![i] = "done"]
    /\ UNCHANGED <<input, decoded, response, rec, diag, last>>

\* the caller keeps the first call's result
Keep(i) ==
    /\ pc[i] = "done"
    /\ last[i] = None
    /\ last' = [last EXCEPT ![i] =
                   Some([input |-> input[i][1], outcome |-> outcome[i],
                         diag |-> diag[i]])]
    /\ pc' = [pc EXCEPT ![i] = "kept"]
    /\ UNCHANGED <<input, decoded, response, rec, outcome, diag>>

\* and calls again with the same instruction
CallAgain(i) ==
    /\ pc[i] = "kept"
    /\ pc' = [pc EXCEPT ![i] = "unpack"]
    /\ decoded' = [decoded EXCEPT ![i] = None]
    /\ outcome' = [outcome EXCEPT ![i] = Running]
    /\ diag' = [diag EXCEPT ![i] = 0]
    /\ UNCHANGED <<input, response, rec, last>>

\* the caller drops what it holds and is ready for another instruction
Forget(i) ==
    /\ pc[i] \in {"done", "kept"}
    /\ pc' = [pc EXCEPT ![i] = "idle"]
    /\ input' = [input EXCEPT ![i] = None]
    /\ decoded' = [decoded EXCEPT ![i] = None]
    /\ response' = [response EXCEPT ![i] = EmptyMap]
    /\ rec' = [rec EXCEPT ![i] = None]
    /\ outcome' = [outcome EXCEPT ![i] = Running]
    /\ diag' = [diag EXCEPT ![i] = 0]
    /\ last' = [last EXCEPT ![i] = None]

Next ==
    \E i \in DOMAIN pc :
        \/ Call(i)
        \/ UnpackFail(i)
        \/ UnpackOk(i)
        \/ SkipUnmapped(i)
        \/ BuildOk(i)
        \/ BuildPanic(i)
        \/ Insert(i)
        \/ ReturnSome(i)
        \/ Keep(i)
        \/ CallAgain(i)
        \/ Forget(i)

Spec == Init /\ [][Next]_vars

(***************************************************************************)
(* Concurrent callers.  Each draws its instruction from a handful of       *)
(* shapes: arms sharing a key, arms with keys of their own, an arm that    *)
(* returns None, an undecodable payload, and two lists that are too short. *)
(***************************************************************************)
ConcShapes ==
    { << "InitializeMarket", 13 >>, << "NewOrder", 10 >>,
      << "SweepFees", 4 >>, << "DisableMarket", 2 >>,
      << "DisableMarket", 0 >>, << "SendTake", 12 >>,
      << "SettleFunds", 0 >>, << GarbageTag, 1 >> }

ConcInstructions ==
    { [ data |-> [ tag |-> shape[1], side |-> 1, order_type |-> 2,
                   self_trade_behavior |-> 1, top |-> 65535, limit |-> 7 ],
        accounts |-> AccountList(shape[2]),
        timestamp |-> 1 ] : shape \in ConcShapes }

CallConc(i) == CallFrom(i, ConcInstructions)

NextConc ==
    \E i \in DOMAIN pc :
        \/ CallConc(i)
        \/ UnpackFail(i)
        \/ UnpackOk(i)
        \/ SkipUnmapped(i)
        \/ BuildOk(i)
        \/ BuildPanic(i)
        \/ Insert(i)
        \/ ReturnSome(i)
        \/ Forget(i)

SpecConc == InitConc /\ [][NextConc]_vars

(***************************************************************************)
(* Properties.                                                             *)
(***************************************************************************)
Callers == DOMAIN pc

Finished(i) == pc[i] = "done"

TagOf(i) == input[i][1].data.tag

AccountsOf(i) == input[i][1].accounts

\* the one record of an accumulation that holds one key and one record
OnlyRecord(o) == o.map[CHOOSE k \in DOMAIN o.map : TRUE][1]

\* an accumulation of exactly one key whose sequence has exactly one record
OneKeyOneRecord(o) ==
    /\ o.kind = "some"
    /\ Cardinality(DOMAIN o.map) = 1
    /\ \A k \in DOMAIN o.map : Len(o.map[k]) = 1

\* C1: an instruction whose payload unpack does not recognise, whatever its
\* account list and timestamp, ends normally with None (no accumulation, no
\* record) and exactly one diagnostic.
C1_UnrecognisedAbsentOneDiagnostic ==
    \A i \in Callers :
        (Finished(i) /\ Unpack(input[i][1].data) = None) =>
            /\ outcome[i] = Absent
            /\ rec[i] = None
            /\ diag[i] = 1

C1_Witness ==
    \E i \in Callers :
        /\ Finished(i)
        /\ TagOf(i) = GarbageTag
        /\ Len(AccountsOf(i)) = 0
        /\ outcome[i] = Absent
        /\ diag[i] = 1

\* C2: each of the six deliberately unmapped variants returns None for every
\* account list, the empty one included, and emits no diagnostic.
C2_UnmappedAbsentSilent ==
    \A i \in Callers :
        (Finished(i) /\ TagOf(i) \in UnmappedVariants) =>
            /\ outcome[i] = Absent
            /\ rec[i] = None
            /\ diag[i] = 0

C2_Witness ==
    \E i \in Callers :
        /\ Finished(i)
        /\ TagOf(i) = "ConsumeEventsPermissioned"
        /\ Len(AccountsOf(i)) = 0
        /\ outcome[i] = Absent
        /\ diag[i] = 0

\* The account counts documented for a mapped variant: the highest position
\* the account-position table names plus one (ten for InitializeMarket, as in
\* its scenario), and the count the arm's own account comment lists.
DocumentedMinimum(variant) ==
    CASE variant = "InitializeMarket" -> {10}
      [] variant = "NewOrder" -> {10}
      [] variant = "NewOrderV2" -> {7, 9}
      [] variant = "NewOrderV3" -> {10}
      [] variant = "CancelOrder" -> {4}
      [] variant = "CancelOrderByClientId" -> {4}
      [] variant = "CancelOrderV2" -> {5, 6}
      [] variant = "CancelOrderByClientIdV2" -> {4, 6}
      [] variant = "DisableMarket" -> {2}
      [] variant = "SweepFees" -> {4, 6}
      [] variant = "SendTake" -> {10}
      [] variant = "Prune" -> {6}

\* C3: every mapped variant, given an account list of the documented minimum
\* count, returns an accumulation of exactly one key holding one record.
C3_MappedMinimumOneRecord ==
    \A i \in Callers :
        ( /\ Finished(i)
          /\ TagOf(i) \in MappedVariants
          /\ Len(AccountsOf(i)) \in DocumentedMinimum(TagOf(i)) ) =>
            OneKeyOneRecord(outcome[i])

C3_Witness ==
    \E i \in Callers :
        /\ Finished(i)
        /\ TagOf(i) = "NewOrderV3"
        /\ Len(AccountsOf(i)) = 10
        /\ OneKeyOneRecord(outcome[i])

\* the routing key documented for a record kind
DocumentedKey(kind) ==
    CASE kind = "SerumMarket" ->
             << SERUM_MARKET_TABLE_NAME, SERUM_MARKETS_SCHEMA >>
      [] kind = "SerumOrder" ->
             << SERUM_ORDER_TABLE_NAME, SERUM_ORDERS_SCHEMA >>
      [] kind = "CancelledOrder" ->
             << SERUM_CANCELLED_ORDER_TABLE_NAME, SERUM_CANCELLED_ORDERS_SCHEMA >>
      [] kind = "SendTake" ->
             << SERUM_SEND_TAKE_TABLE_NAME, SERUM_SEND_TAKES_SCHEMA >>
      [] kind = "Prune" ->
             << SERUM_PRUNE_TABLE_NAME, SERUM_PRUNE_SCHEMA >>
      [] kind = "MarketDisable" ->
             << SERUM_MARKET_DISABLE_TABLE_NAME, SERUM_MARKET_DISABLE_SCHEMA >>
      [] OTHER -> << >>

\* C4: in every accumulation returned, each record sits under the routing key
\* of its own record kind and never under the key of another kind.
C4_RecordUnderOwnKey ==
    \A i \in Callers :
        (Finished(i) /\ outcome[i].kind = "some") =>
            \A k \in DOMAIN outcome[i].map :
                \A n \in 1..Len(outcome[i].map[k]) :
                    k = DocumentedKey(outcome[i].map[k][n].record)

\* C5: InitializeMarket with ten accounts or more yields a Market record whose
\* three authorities are all present, equal to accounts[10], [11] and [12],
\* exactly when the list has at least eleven accounts, and all absent
\* otherwise.
C5_AuthoritiesAllOrNone ==
    \A i \in Callers :
        ( /\ Finished(i)
          /\ TagOf(i) = "InitializeMarket"
          /\ Len(AccountsOf(i)) >= 10 ) =>
            /\ OneKeyOneRecord(outcome[i])
            /\ LET r == OnlyRecord(outcome[i])
               IN  IF Len(AccountsOf(i)) >= 11
                   THEN /\ Len(AccountsOf(i)) >= 13
                        /\ r.open_order_authority = Some(AccountsOf(i)[11])
                        /\ r.prune_authority = Some(AccountsOf(i)[12])
                        /\ r.crank_authority = Some(AccountsOf(i)[13])
                   ELSE /\ r.open_order_authority = None
                        /\ r.prune_authority = None
                        /\ r.crank_authority = None

\* the msrm_discount_account the presence rule documents
DocumentedMsrm(variant, accounts) ==
    CASE variant = "NewOrder" -> Some(accounts[10])
      [] variant = "NewOrderV2" ->
             IF Len(accounts) >= 12 THEN Some(accounts[10]) ELSE None
      [] OTHER ->
             IF Len(accounts) >= 13 THEN Some(accounts[13])
             ELSE IF Len(accounts) >= 12 THEN Some(OutOfBounds)
             ELSE None

\* C6: at every account count from the variant's minimum up,
\* msrm_discount_account is accounts[9] for NewOrder, accounts[9] exactly when
\* the count is at least 12 for NewOrderV2, accounts[12] exactly when the
\* count is at least 12 for NewOrderV3 and SendTake, and absent otherwise.
C6_MsrmPresenceRule ==
    \A i \in Callers :
        ( /\ Finished(i)
          /\ TagOf(i) \in {"NewOrder", "NewOrderV2", "NewOrderV3", "SendTake"}
          /\ \E m \in DocumentedMinimum(TagOf(i)) : Len(AccountsOf(i)) >= m ) =>
            /\ OneKeyOneRecord(outcome[i])
            /\ OnlyRecord(outcome[i]).msrm_discount_account
                   = DocumentedMsrm(TagOf(i), AccountsOf(i))

C8_RecordOrNothing ==
    \A i \in Callers :
        Finished(i) =>
            \/ outcome[i] = Absent
            \/ /\ OneKeyOneRecord(outcome[i])
               /\ ~Panicked(OnlyRecord(outcome[i]))

\* C9: a second call with the same payload, account list and timestamp
\* returns what the first returned: the same absent/present outcome, the same
\* routing key, the same record, the same diagnostics.
C9_SameInputSameOutput ==
    \A i \in Callers :
        ( /\ Finished(i)
          /\ last[i] # None
          /\ last[i][1].input = input[i][1] ) =>
            /\ outcome[i] = last[i][1].outcome
            /\ diag[i] = last[i][1].diag

C9_Witness ==
    \E i \in Callers :
        /\ Finished(i)
        /\ last[i] # None
        /\ last[i][1].input = input[i][1]
        /\ OneKeyOneRecord(outcome[i])
        /\ outcome[i] = last[i][1].outcome

\* the slots of caller j are left as they were
SlotUnchanged(j) ==
    /\ pc'[j] = pc[j]
    /\ input'[j] = input[j]
    /\ decoded'[j] = decoded[j]
    /\ response'[j] = response[j]
    /\ rec'[j] = rec[j]
    /\ outcome'[j] = outcome[j]
    /\ diag'[j] = diag[j]

C10_Step ==
    /\ \E i \in Callers : \A j \in Callers \ {i} : SlotUnchanged(j)
    /\ \A i \in Callers :
           pc'[i] = "done" => outcome'[i] = Project(input'[i][1])

\* C10: under any interleaving of concurrent invocations, a step of one
\* invocation leaves the state of every other untouched, and each invocation
\* returns what it returns when run alone on the same input.
C10_ConcurrentCallsIndependent == [][C10_Step]_vars

C10_Witness ==
    \E i \in Callers : \E j \in Callers \ {i} :
        /\ Finished(i)
        /\ OneKeyOneRecord(outcome[i])
        /\ pc[j] = "return"
        /\ input[i] # input[j]
        /\ KeyOf(decoded[i][1].variant) = KeyOf(decoded[j][1].variant)

\* the 0-based account position documented for each account-derived required
\* field of the record a mapped variant produces
DocumentedPositions(variant) ==
    CASE variant = "InitializeMarket" ->
             [ market |-> 0, request_queue_account |-> 1,
               event_queue_account |-> 2, bids_account |-> 3,
               asks_account |-> 4, coin_account |-> 5, price_account |-> 6,
               coin_mint |-> 7, price_mint |-> 8 ]
      [] variant \in {"NewOrder", "NewOrderV2"} ->
             [ market |-> 0, paying_account |-> 3, coin_vault |-> 5,
               pc_vault |-> 6 ]
      [] variant = "NewOrderV3" ->
             [ market |-> 0, paying_account |-> 6, coin_vault |-> 8,
               pc_vault |-> 9 ]
      [] variant \in {"CancelOrder", "CancelOrderByClientId"} ->
             [ market |-> 0, open_order_owner |-> 3 ]
      [] variant \in {"CancelOrderV2", "CancelOrderByClientIdV2"} ->
             [ market |-> 0 ]
      [] variant = "DisableMarket" ->
             [ market |-> 0, authority |-> 1 ]
      [] variant = "SweepFees" ->
             [ market |-> 0, pc_vault |-> 1, fee_authority |-> 2,
               fee_receivable_account |-> 3 ]
      [] variant = "SendTake" ->
             [ market |-> 0, coin_wallet_account |-> 5,
               pc_wallet_account |-> 6, coin_vault |-> 8, pc_vault |-> 9 ]
      [] variant = "Prune" ->
             [ market |-> 0, open_orders |-> 4, open_orders_owner |-> 5 ]

\* C11: for every mapped variant, each account-derived required field of the
\* record produced is the address at the documented 0-based position of the
\* instruction's account list.
C11_FieldsFromDocumentedPositions ==
    \A i \in Callers :
        (Finished(i) /\ outcome[i].kind = "some") =>
            /\ OneKeyOneRecord(outcome[i])
            /\ \A f \in DOMAIN DocumentedPositions(TagOf(i)) :
                   LET k == DocumentedPositions(TagOf(i))[f]
                   IN  /\ f \in DOMAIN OnlyRecord(outcome[i])
                       /\ k < Len(AccountsOf(i))
                       /\ OnlyRecord(outcome[i])[f] = AccountsOf(i)[k + 1]

C11_Witness ==
    \E i \in Callers :
        /\ Finished(i)
        /\ TagOf(i) = "InitializeMarket"
        /\ OneKeyOneRecord(outcome[i])
        /\ OnlyRecord(outcome[i]).coin_mint = AddressAt(7)
        /\ OnlyRecord(outcome[i]).price_account = AddressAt(6)
        /\ OnlyRecord(outcome[i]).price_mint = AddressAt(8)

\* C12: in an Order record, limit is present exactly when the variant is
\* NewOrderV3 and self_trade_behavior is present exactly when the variant is
\* NewOrderV2 or NewOrderV3, whatever the account list and the decoded
\* fields.
C12_OrderVersionFields ==
    \A i \in Callers :
        ( /\ Finished(i)
          /\ outcome[i].kind = "some"
          /\ TagOf(i) \in {"NewOrder", "NewOrderV2", "NewOrderV3"} ) =>
            /\ OneKeyOneRecord(outcome[i])
            /\ OnlyRecord(outcome[i]).record = "SerumOrder"
            /\ (OnlyRecord(outcome[i]).limit # None)
                   <=> (TagOf(i) = "NewOrderV3")
            /\ (OnlyRecord(outcome[i]).self_trade_behavior # None)
                   <=> (TagOf(i) \in {"NewOrderV2", "NewOrderV3"})

C12_Witness ==
    \E i \in Callers :
        /\ Finished(i)
        /\ TagOf(i) = "NewOrderV2"
        /\ OneKeyOneRecord(outcome[i])
        /\ OnlyRecord(outcome[i]).limit = None
        /\ OnlyRecord(outcome[i]).self_trade_behavior # None

\* the signed 64-bit value s is the integer the unsigned 64-bit value u is
SameInteger64(s, u) == s.neg = FALSE /\ s.mag = u

\* the numeric fields of record r are, as integers, the values d decoded
NumericFieldsVerbatim(r, d) ==
    CASE r.record = "SerumMarket" ->
             /\ SameInteger64(r.coin_lot_size, d.coin_lot_size)
             /\ SameInteger64(r.price_currency_lot_size, d.pc_lot_size)
             /\ SameInteger64(r.pc_dust_threshold, d.pc_dust_threshold)
             /\ SameInteger64(r.fee_rate_bps, << 0, 0, 0, d.fee_rate_bps >>)
      [] r.record = "SerumOrder" ->
             /\ SameInteger64(r.client_order_id, d.client_id)
             /\ SameInteger64(r.limit_price, d.limit_price)
             /\ SameInteger64(r.max_quantity, d.max_qty)
             /\ r.order_type = d.order_type
             /\ r.side = d.side
             /\ r.self_trade_behavior \in {None, Some(d.self_trade_behavior)}
             /\ r.limit \in {None, Some(d.limit)}
      [] r.record = "CancelledOrder" ->
             r.side \in {None, Some(d.side)}
      [] r.record = "SendTake" ->
             /\ r.side = d.side
             /\ SameInteger64(r.limit_price, d.limit_price)
             /\ SameInteger64(r.max_quantity, d.max_coin_qty)
             /\ SameInteger64(r.max_pc_qty_incl_fees,
                              d.max_native_pc_qty_including_fees)
             /\ SameInteger64(r.min_coin_qty, d.min_coin_qty)
             /\ SameInteger64(r.min_pc_qty, d.min_native_pc_qty)
      [] r.record = "Prune" ->
             r.limit = d.limit
      [] OTHER -> TRUE

\* C13: every numeric field of a produced record equals, as an integer, the
\* value the decoder gave: each u64 quantity over 0..2^64-1 unchanged in the
\* i64 field and each 16-bit value over 0..65535 unchanged in the i16 field,
\* with no wrap-around and no sign change.
C13_NumericFieldsUnchanged ==
    \A i \in Callers :
        (Finished(i) /\ OneKeyOneRecord(outcome[i])) =>
            NumericFieldsVerbatim(OnlyRecord(outcome[i]), decoded[i][1])

\* C14: every record produced, for every mapped variant, carries the event
\* timestamp of the input instruction unchanged, whatever the payload, the
\* account list and the calls made before.
C14_TimestampPropagated ==
    \A i \in Callers :
        (Finished(i) /\ outcome[i].kind = "some") =>
            \A k \in DOMAIN outcome[i].map :
                \A n \in 1..Len(outcome[i].map[k]) :
                    outcome[i].map[k][n].timestamp = input[i][1].timestamp

C14_Witness ==
    \E i \in Callers :
        /\ Finished(i)
        /\ last[i] # None
        /\ TagOf(i) = "SendTake"
        /\ input[i][1].timestamp = MaxTimestamp
        /\ OneKeyOneRecord(outcome[i])
        /\ OnlyRecord(outcome[i]).timestamp = MaxTimestamp

====
